---- MODULE Spec2Model ----
(***************************************************************************)
(* State-machine model of main.py: the three converters                    *)
(* convert_svg_to_dst, convert_svg_to_dst_bitmap and                       *)
(* convert_svg_to_dst_manual, each building a pyembroidery pattern command *)
(* by command.                                                             *)
(*                                                                         *)
(* Numbers.  The program computes in floating point.  The model computes   *)
(* in fixed point: every coordinate is an integer number of tenths of a    *)
(* unit (Fx), every quotient is rounded to the nearest tenth (RDiv), and   *)
(* the scale argument is an integer number of tenths (10 is scale=1.0).    *)
(* Path lengths and step_size are whole units.                             *)
(***************************************************************************)
EXTENDS Integers, Sequences, FiniteSets, TLC

(***************************************************************************)
(* Bounds of the model.                                                    *)
(***************************************************************************)
MaxShapes == 2
ImgWidth == 13
ImgHeight == 4

(***************************************************************************)
(* Program constants.                                                      *)
(***************************************************************************)
SvgWidth == 1871
SvgHeight == 2208
MinFillSamples == 20
MinStrokeSamples == 2
FillLayers == 8
LayerOffset == 3
BitmapFillSpacing == 3
MinSegmentWidth == 5
ManualFillSpacing == 2

(***************************************************************************)
(* Arithmetic.                                                             *)
(***************************************************************************)
Max(a, b) == IF a >= b THEN a ELSE b

Fx(n) == n * 10

\* a / b for b > 0, rounded to the nearest integer (ties away from zero)
RDiv(a, b) == IF a >= 0 THEN (2 * a + b) \div (2 * b)
              ELSE -((2 * (-a) + b) \div (2 * b))

RECURSIVE SqrtSearch(_, _, _)
SqrtSearch(n, lo, hi) ==
    IF lo >= hi THEN lo
    ELSE LET mid == (lo + hi + 1) \div 2
         IN  IF mid * mid <= n THEN SqrtSearch(n, mid, hi)
             ELSE SqrtSearch(n, lo, mid - 1)

\* (dx*dx + dy*dy)**0.5 on fixed-point operands
Sqrt(n) == SqrtSearch(n, 0, IF n < 40000 THEN n ELSE 40000)

\* Python's round(a / b) for a >= 0, b > 0: ties go to the even integer
RoundHalfEven(a, b) ==
    LET q == a \div b
        r == a % b
    IN  IF 2 * r < b THEN q
        ELSE IF 2 * r > b THEN q + 1
        ELSE IF q % 2 = 0 THEN q ELSE q + 1

(***************************************************************************)
(* Paths, as svg2paths returns them: length() and point(t).  Three kinds   *)
(* of path: a single point (length 0), a horizontal line of length a and a *)
(* closed square of side a, each starting at (ox, oy).                     *)
(***************************************************************************)
PointPath == [kind |-> "point", ox |-> 930, oy |-> 1100, a |-> 0]
Line7 == [kind |-> "line", ox |-> 930, oy |-> 1100, a |-> 7]
Line13 == [kind |-> "line", ox |-> 930, oy |-> 1100, a |-> 13]
Square5 == [kind |-> "square", ox |-> 933, oy |-> 1102, a |-> 5]

PathLength(p) ==
    CASE p.kind = "point" -> 0
      [] p.kind = "line" -> p.a
      [] p.kind = "square" -> 4 * p.a

\* path.point(j / n), in tenths
PathPoint(p, j, n) ==
    CASE p.kind = "point" -> <<Fx(p.ox), Fx(p.oy)>>
      [] p.kind = "line" -> <<Fx(p.ox) + RDiv(Fx(p.a) * j, n), Fx(p.oy)>>
      [] p.kind = "square" ->
            LET q == (4 * j) \div n
                d == RDiv(Fx(p.a) * (4 * j - q * n), n)
            IN  CASE q = 0 -> <<Fx(p.ox) + d, Fx(p.oy)>>
                  [] q = 1 -> <<Fx(p.ox) + Fx(p.a), Fx(p.oy) + d>>
                  [] q = 2 -> <<Fx(p.ox) + Fx(p.a) - d, Fx(p.oy) + Fx(p.a)>>
                  [] q = 3 -> <<Fx(p.ox), Fx(p.oy) + Fx(p.a) - d>>
                  [] OTHER -> <<Fx(p.ox), Fx(p.oy)>>

\* attr.get(key, 'none') on an attribute dictionary
Get(attr, key) ==
    IF \E kv \in attr : kv[1] = key
    THEN (CHOOSE kv \in attr : kv[1] = key)[2]
    ELSE "none"

\* `color and color != 'none'`
HasColorNoneAsColor(color) == color # ""

HasColor(color) == color # "" /\ color # "none"

\* `if not paths`
NotPathsNever(ps) == FALSE

NotPaths(ps) == Len(ps) = 0

(***************************************************************************)
(* Inputs.  A shape is a path with its attribute dictionary, a set of      *)
(* <<key, value>> pairs.                                                   *)
(***************************************************************************)
Shapes ==
    { [path |-> PointPath, attr |-> {<<"fill", "red">>, <<"stroke", "blue">>}],
      [path |-> Line7, attr |-> {<<"fill", "none">>, <<"stroke", "none">>}],
      [path |-> Line13, attr |-> {<<"fill", "red">>}],
      [path |-> Square5, attr |-> {<<"stroke", "blue">>}],
      [path |-> Line7, attr |-> {<<"fill", "#00FF00">>, <<"stroke", "black">>}],
      [path |-> Square5, attr |-> {<<"fill", "gold">>, <<"stroke", "none">>}],
      [path |-> Line13, attr |-> {}] }

ShapeLists == UNION { [1..n -> Shapes] : n \in 0..MaxShapes }

OnePathFile == << [path |-> Square5, attr |-> {<<"fill", "gold">>, <<"stroke", "none">>}] >>

StepSizes == {0, 2, 3}

Scales == {0, 10}

BitmapScales == {10}

ManualScales == {-10, 0, 10}

(***************************************************************************)
(* Stitch commands of the pattern and thread descriptors.                  *)
(***************************************************************************)
ColorChange == [cmd |-> "ColorChange", x |-> 0, y |-> 0]
Move(pt) == [cmd |-> "Move", x |-> pt[1], y |-> pt[2]]
Stitch(pt) == [cmd |-> "Stitch", x |-> pt[1], y |-> pt[2]]
End == [cmd |-> "End", x |-> 0, y |-> 0]

Thread(n, kind, color) ==
    [catalog_number |-> <<n, kind>>, description |-> <<kind, color>>]

(***************************************************************************)
(* The sampler of convert_svg_to_dst (fill and stroke).                    *)
(***************************************************************************)
\* max(round(path_length / step_size), m)
SampleCountRounded(len, step, m) == Max(RoundHalfEven(len, step), m)

\* max(int(path_length / step_size), m), for step > 0
SampleCount(len, step, m) == Max(len \div step, m)

\* ((point.real - center_x) * scale, (point.imag - center_y) * scale)
MapPoint(pt, c, s) == <<RDiv((pt[1] - c[1]) * s, 10), RDiv((pt[2] - c[2]) * s, 10)>>

SamplePoints(p, n, c, s) == [j \in 1..(n + 1) |-> MapPoint(PathPoint(p, j - 1, n), c, s)]

(***************************************************************************)
(* The concentric layers of the fill.                                      *)
(***************************************************************************)
RECURSIVE SumCoord(_, _, _)
SumCoord(pts, ax, n) == IF n = 0 THEN 0 ELSE pts[n][ax] + SumCoord(pts, ax, n - 1)

\* (sum(p[0]) / len, sum(p[1]) / len)
Centroid(pts) == <<RDiv(SumCoord(pts, 1, Len(pts)), Len(pts)),
                   RDiv(SumCoord(pts, 2, Len(pts)), Len(pts))>>

Dist2(p, c) == (c[1] - p[1]) * (c[1] - p[1]) + (c[2] - p[2]) * (c[2] - p[2])

\* offset = layer * layer_offset
Offset(l) == l * Fx(LayerOffset)

\* `if length > offset`
Retained(p, c, off) == Dist2(p, c) > off * off

\* the point moved away from the centroid instead of toward it
OffsetPointOutward(p, c, off) ==
    LET length == Sqrt(Dist2(p, c))
    IN  <<p[1] - RDiv((c[1] - p[1]) * off, Max(length, 1)),
          p[2] - RDiv((c[2] - p[2]) * off, Max(length, 1))>>

\* (x + dx * factor, y + dy * factor) with factor = offset / length
OffsetPoint(p, c, off) ==
    LET length == Sqrt(Dist2(p, c))
    IN  <<p[1] + RDiv((c[1] - p[1]) * off, Max(length, 1)),
          p[2] + RDiv((c[2] - p[2]) * off, Max(length, 1))>>

RECURSIVE LayerPointsFrom(_, _, _, _)
LayerPointsFrom(pts, c, off, n) ==
    IF n > Len(pts) THEN << >>
    ELSE IF Retained(pts[n], c, off)
         THEN <<OffsetPoint(pts[n], c, off)>> \o LayerPointsFrom(pts, c, off, n + 1)
         ELSE LayerPointsFrom(pts, c, off, n + 1)

LayerPoints(pts, c, l) == LayerPointsFrom(pts, c, Offset(l), 1)

\* `if len(layer_points) > 3`
LayerKeptAboveFour(lp) == Len(lp) > 4

LayerKept(lp) == Len(lp) > 3

\* stroke_points[1:]
StrokeRestClosed(pts) == Tail(pts) \o <<pts[1]>>

StrokeRest(pts) == Tail(pts)

VARIABLES fn, paths, attributes, step_size, scale,
          pc, i, pattern, origin, threads, total_stitches, fill_lines,
          center, fill_points, layer, layer_points, stroke_points, k,
          y, row, line_segments, area, result, written

vars == <<fn, paths, attributes, step_size, scale,
          pc, i, pattern, origin, threads, total_stitches, fill_lines,
          center, fill_points, layer, layer_points, stroke_points, k,
          y, row, line_segments, area, result, written>>

inputs == <<fn, paths, attributes, step_size, scale>>
fillVars == <<fill_points, layer, layer_points>>
bitmapVars == <<y, row, line_segments, area>>
outVars == <<pattern, origin, threads, total_stitches>>


PathsOf(shapes) == [j \in 1..Len(shapes) |-> shapes[j].path]
AttributesOf(shapes) == [j \in 1..Len(shapes) |-> shapes[j].attr]

(***************************************************************************)
(* The state at the call of a converter: its arguments, an empty pattern   *)
(* and unset locals.                                                       *)
(***************************************************************************)
Init ==
    /\ \E f \in {"auto", "bitmap", "manual"} :
         /\ fn = f
         /\ \E shapes \in (IF f = "auto" THEN ShapeLists ELSE {<< >>, OnePathFile}) :
              /\ paths = PathsOf(shapes)
              /\ attributes = AttributesOf(shapes)
         /\ step_size \in (IF f = "auto" THEN StepSizes ELSE {3})
         /\ scale \in (CASE f = "auto" -> Scales
                          [] f = "bitmap" -> BitmapScales
                          [] OTHER -> ManualScales)
         /\ pc = (CASE f = "auto" -> "load" [] f = "bitmap" -> "b_load" [] OTHER -> "m_color")
    /\ i = 0
    /\ pattern = << >>
    /\ origin = << >>
    /\ threads = << >>
    /\ total_stitches = 0
    /\ fill_lines = 0
    /\ center = <<0, 0>>
    /\ fill_points = << >>
    /\ layer = 0
    /\ layer_points = << >>
    /\ stroke_points = << >>
    /\ k = 0
    /\ y = 0
    /\ row = << >>
    /\ line_segments = << >>
    /\ area = 0
    /\ result = "none"
    /\ written = FALSE

(***************************************************************************)
(* convert_svg_to_dst                                                      *)
(***************************************************************************)
\* svg2paths returned no path: return False
LoadEmpty ==
    /\ pc = "load"
    /\ NotPaths(paths)
    /\ result' = "False"
    /\ pc' = "done"
    /\ UNCHANGED <<inputs, i, outVars, fill_lines, center, fillVars, stroke_points, k,
                   bitmapVars, written>>

\* the pattern is created and the canvas center is set
Load ==
    /\ pc = "load"
    /\ ~NotPaths(paths)
    /\ center' = <<Fx(SvgWidth) \div 2, Fx(SvgHeight) \div 2>>
    /\ i' = 1
    /\ pc' = "path"
    /\ UNCHANGED <<inputs, outVars, fill_lines, fillVars, stroke_points, k,
                   bitmapVars, result, written>>

\* `if path_length == 0: continue`
SkipZeroLength ==
    /\ pc = "path"
    /\ i <= Len(paths)
    /\ PathLength(paths[i]) = 0
    /\ i' = i + 1
    /\ UNCHANGED <<inputs, pc, outVars, fill_lines, center, fillVars, stroke_points, k,
                   bitmapVars, result, written>>

NextPath ==
    /\ pc = "path"
    /\ i <= Len(paths)
    /\ PathLength(paths[i]) # 0
    /\ pc' = "fill"
    /\ UNCHANGED <<inputs, i, outVars, fill_lines, center, fillVars, stroke_points, k,
                   bitmapVars, result, written>>

\* the fill attribute is absent, empty or 'none'
NoFill ==
    /\ pc = "fill"
    /\ ~HasColor(Get(attributes[i], "fill"))
    /\ pc' = "stroke"
    /\ UNCHANGED <<inputs, i, outVars, fill_lines, center, fillVars, stroke_points, k,
                   bitmapVars, result, written>>

\* pattern.color_change(); pattern.add_thread(fill_thread_info)
FillColorChange ==
    /\ pc = "fill"
    /\ HasColor(Get(attributes[i], "fill"))
    /\ pattern' = Append(pattern, ColorChange)
    /\ origin' = Append(origin, <<i, "F">>)
    /\ threads' = Append(threads, Thread(i, "F", Get(attributes[i], "fill")))
    /\ pc' = "fill_sample"
    /\ UNCHANGED <<inputs, i, total_stitches, fill_lines, center, fillVars, stroke_points, k,
                   bitmapVars, result, written>>

\* path_length / step_size raises ZeroDivisionError: the handler returns False
ZeroDivision ==
    /\ pc \in {"fill_sample", "stroke_sample"}
    /\ step_size = 0
    /\ result' = "False"
    /\ pc' = "done"
    /\ UNCHANGED <<inputs, i, outVars, fill_lines, center, fillVars, stroke_points, k,
                   bitmapVars, written>>

\* the fill points are sampled from the path
FillSample ==
    /\ pc = "fill_sample"
    /\ step_size # 0
    /\ fill_points' = SamplePoints(paths[i],
                                   SampleCount(PathLength(paths[i]), step_size, MinFillSamples),
                                   center, scale)
    /\ fill_lines' = 0
    /\ layer' = 0
    /\ pc' = "layer"
    /\ UNCHANGED <<inputs, i, outVars, center, layer_points, stroke_points, k,
                   bitmapVars, result, written>>

\* one pass of `for layer in range(fill_layers)` up to the test of the layer's size;
\* center_x and center_y are assigned the centroid of the fill points
ComputeLayer ==
    /\ pc = "layer"
    /\ layer < FillLayers
    /\ center' = Centroid(fill_points)
    /\ layer_points' = LayerPoints(fill_points, center', layer)
    /\ IF LayerKept(layer_points')
       THEN pc' = "layer_move" /\ layer' = layer
       ELSE pc' = "layer" /\ layer' = layer + 1
    /\ UNCHANGED <<inputs, i, outVars, fill_lines, fill_points, stroke_points, k,
                   bitmapVars, result, written>>

\* pattern.move_abs(layer_points[0])
LayerMove ==
    /\ pc = "layer_move"
    /\ pattern' = Append(pattern, Move(layer_points[1]))
    /\ origin' = Append(origin, <<i, "F">>)
    /\ k' = 2
    /\ pc' = "layer_stitch"
    /\ UNCHANGED <<inputs, i, threads, total_stitches, fill_lines, center, fillVars,
                   stroke_points, bitmapVars, result, written>>

\* pattern.stitch_abs(x, y); total_stitches += 1
LayerStitch ==
    /\ pc = "layer_stitch"
    /\ k <= Len(layer_points)
    /\ pattern' = Append(pattern, Stitch(layer_points[k]))
    /\ origin' = Append(origin, <<i, "F">>)
    /\ total_stitches' = total_stitches + 1
    /\ k' = k + 1
    /\ UNCHANGED <<inputs, pc, i, threads, fill_lines, center, fillVars,
                   stroke_points, bitmapVars, result, written>>

\* fill_lines += 1, and the next layer
LayerEnd ==
    /\ pc = "layer_stitch"
    /\ k > Len(layer_points)
    /\ fill_lines' = fill_lines + 1
    /\ layer' = layer + 1
    /\ pc' = "layer"
    /\ UNCHANGED <<inputs, i, outVars, center, fill_points, layer_points,
                   stroke_points, k, bitmapVars, result, written>>

LayersDone ==
    /\ pc = "layer"
    /\ layer >= FillLayers
    /\ pc' = "stroke"
    /\ UNCHANGED <<inputs, i, outVars, fill_lines, center, fillVars, stroke_points, k,
                   bitmapVars, result, written>>

\* the stroke attribute is absent, empty or 'none': next path
NoStroke ==
    /\ pc = "stroke"
    /\ ~HasColor(Get(attributes[i], "stroke"))
    /\ i' = i + 1
    /\ pc' = "path"
    /\ UNCHANGED <<inputs, outVars, fill_lines, center, fillVars, stroke_points, k,
                   bitmapVars, result, written>>

\* pattern.color_change(); pattern.add_thread(stroke_thread_info)
StrokeColorChange ==
    /\ pc = "stroke"
    /\ HasColor(Get(attributes[i], "stroke"))
    /\ pattern' = Append(pattern, ColorChange)
    /\ origin' = Append(origin, <<i, "S">>)
    /\ threads' = Append(threads, Thread(i, "S", Get(attributes[i], "stroke")))
    /\ pc' = "stroke_sample"
    /\ UNCHANGED <<inputs, i, total_stitches, fill_lines, center, fillVars, stroke_points, k,
                   bitmapVars, result, written>>

\* the stroke points are sampled from the path
StrokeSample ==
    /\ pc = "stroke_sample"
    /\ step_size # 0
    /\ stroke_points' = SamplePoints(paths[i],
                                     SampleCount(PathLength(paths[i]), step_size, MinStrokeSamples),
                                     center, scale)
    /\ pc' = "stroke_move"
    /\ UNCHANGED <<inputs, i, outVars, fill_lines, center, fillVars, k,
                   bitmapVars, result, written>>

\* pattern.move_abs(stroke_points[0]); the stitches to come are stroke_points[1:]
StrokeMove ==
    /\ pc = "stroke_move"
    /\ pattern' = Append(pattern, Move(stroke_points[1]))
    /\ origin' = Append(origin, <<i, "S">>)
    /\ k' = 1
    /\ pc' = "stroke_stitch"
    /\ UNCHANGED <<inputs, i, threads, total_stitches, fill_lines, center, fillVars,
                   stroke_points, bitmapVars, result, written>>

\* pattern.stitch_abs(x, y); total_stitches += 1
StrokeStitchUncounted ==
    /\ pc = "stroke_stitch"
    /\ k <= Len(StrokeRest(stroke_points))
    /\ pattern' = Append(pattern, Stitch(StrokeRest(stroke_points)[k]))
    /\ origin' = Append(origin, <<i, "S">>)
    /\ k' = k + 1
    /\ UNCHANGED <<inputs, pc, i, threads, total_stitches, fill_lines, center, fillVars,
                   stroke_points, bitmapVars, result, written>>

StrokeStitch ==
    /\ pc = "stroke_stitch"
    /\ k <= Len(StrokeRest(stroke_points))
    /\ pattern' = Append(pattern, Stitch(StrokeRest(stroke_points)[k]))
    /\ origin' = Append(origin, <<i, "S">>)
    /\ total_stitches' = total_stitches + 1
    /\ k' = k + 1
    /\ UNCHANGED <<inputs, pc, i, threads, fill_lines, center, fillVars,
                   stroke_points, bitmapVars, result, written>>

\* the stroke is done: next path
StrokeEnd ==
    /\ pc = "stroke_stitch"
    /\ k > Len(StrokeRest(stroke_points))
    /\ i' = i + 1
    /\ pc' = "path"
    /\ UNCHANGED <<inputs, outVars, fill_lines, center, fillVars, stroke_points, k,
                   bitmapVars, result, written>>

\* pattern.end() after the last path
EndPattern ==
    /\ pc = "path"
    /\ i > Len(paths)
    /\ pattern' = Append(pattern, End)
    /\ origin' = Append(origin, <<i, "E">>)
    /\ pc' = "write"
    /\ UNCHANGED <<inputs, i, threads, total_stitches, fill_lines, center, fillVars,
                   stroke_points, k, bitmapVars, result, written>>

\* the pattern is handed to the writer of the output format: return True
WritePattern ==
    /\ pc = "write"
    /\ written' = TRUE
    /\ result' = "True"
    /\ pc' = "done"
    /\ UNCHANGED <<inputs, i, outVars, fill_lines, center, fillVars, stroke_points, k,
                   bitmapVars>>


(***************************************************************************)
(* convert_svg_to_dst_bitmap.  The rendered image is read row by row: the  *)
(* pixels of a scanned row are an input drawn when the scan reaches the    *)
(* row, from the rows that hold at most two runs of blue pixels; row holds *)
(* the pixels of the row being scanned and is empty between two rows.      *)
(***************************************************************************)
None == -1

White == <<255, 255, 255>>
Blue == <<0, 0, 255>>

\* `b > 150 and r < 100 and g < 100`
IsBlue(pixel) == pixel[3] > 150 /\ pixel[1] < 100 /\ pixel[2] < 100

RowBoundaries == { S \in SUBSET (0..ImgWidth) : Cardinality(S) \in {0, 2, 4} }

RowOf(S) == [x \in 1..ImgWidth |->
               IF Cardinality({b \in S : b <= x - 1}) % 2 = 1 THEN Blue ELSE White]

Rows == { RowOf(S) : S \in RowBoundaries }

\* the segment that reaches the right edge is forgotten
ScanEdgeDropped(r, start_x, segs) == segs

\* `if start_x is not None and img_width - start_x > 5`
ScanEdge(r, start_x, segs) ==
    IF start_x # None /\ Len(r) - start_x > MinSegmentWidth
    THEN Append(segs, <<start_x, Len(r)>>)
    ELSE segs

\* `for x in range(img_width)` from x on, then the segment that goes to the edge
RECURSIVE ScanPixels(_, _, _, _)
ScanPixels(r, x, start_x, segs) ==
    IF x >= Len(r) THEN ScanEdge(r, start_x, segs)
    ELSE IF IsBlue(r[x + 1])
         THEN ScanPixels(r, x + 1, IF start_x = None THEN x ELSE start_x, segs)
         ELSE IF start_x # None
              THEN ScanPixels(r, x + 1, None,
                              IF x - start_x > MinSegmentWidth
                              THEN Append(segs, <<start_x, x>>) ELSE segs)
              ELSE ScanPixels(r, x + 1, None, segs)

RowSegments(r) == ScanPixels(r, 0, None, << >>)

\* (v - center) * scale * 0.8
BitmapCoord(v, c, s) == RDiv((Fx(v) - c) * s * 8, 100)

BitmapLoadEmpty ==
    /\ pc = "b_load"
    /\ NotPaths(paths)
    /\ result' = "False"
    /\ pc' = "done"
    /\ UNCHANGED <<inputs, i, outVars, fill_lines, center, fillVars, stroke_points, k,
                   bitmapVars, written>>

\* the paths are rendered to the image
BitmapLoad ==
    /\ pc = "b_load"
    /\ ~NotPaths(paths)
    /\ pc' = "b_color"
    /\ UNCHANGED <<inputs, i, outVars, fill_lines, center, fillVars, stroke_points, k,
                   bitmapVars, result, written>>

\* pattern.color_change(); pattern.add_thread(thread_info); the counters and the center
BitmapColorChange ==
    /\ pc = "b_color"
    /\ pattern' = Append(pattern, ColorChange)
    /\ origin' = Append(origin, <<1, "F">>)
    /\ threads' = Append(threads, Thread(1, "F", "#047AE1"))
    /\ total_stitches' = 0
    /\ fill_lines' = 0
    /\ center' = <<Fx(ImgWidth) \div 2, Fx(ImgHeight) \div 2>>
    /\ y' = 0
    /\ pc' = "b_row"
    /\ UNCHANGED <<inputs, i, fillVars, stroke_points, k, row, line_segments, area,
                   result, written>>

\* one row of `for y in range(0, img_height, fill_spacing)`: its segments are found
ScanRow ==
    /\ pc = "b_row"
    /\ y < ImgHeight
    /\ \E r \in Rows :
         /\ row' = r
         /\ line_segments' = RowSegments(r)
    /\ k' = 1
    /\ pc' = "b_segment"
    /\ UNCHANGED <<inputs, i, outVars, fill_lines, center, fillVars, stroke_points,
                   y, area, result, written>>

\* pattern.move_abs(start); pattern.stitch_abs(end); fill_lines += 1; total_stitches += 1
EmitSegment ==
    /\ pc = "b_segment"
    /\ k <= Len(line_segments)
    /\ LET stitch_start_x == BitmapCoord(line_segments[k][1], center[1], scale)
           stitch_end_x == BitmapCoord(line_segments[k][2], center[1], scale)
           stitch_y == BitmapCoord(y, center[2], scale)
       IN  /\ pattern' = pattern \o <<Move(<<stitch_start_x, stitch_y>>),
                                      Stitch(<<stitch_end_x, stitch_y>>)>>
           /\ origin' = origin \o <<<<1, "F">>, <<1, "F">>>>
    /\ fill_lines' = fill_lines + 1
    /\ total_stitches' = total_stitches + 1
    /\ k' = k + 1
    /\ UNCHANGED <<inputs, pc, i, threads, center, fillVars, stroke_points,
                   bitmapVars, result, written>>

RowDone ==
    /\ pc = "b_segment"
    /\ k > Len(line_segments)
    /\ y' = y + BitmapFillSpacing
    /\ row' = << >>
    /\ pc' = "b_row"
    /\ UNCHANGED <<inputs, i, outVars, fill_lines, center, fillVars, stroke_points, k,
                   line_segments, area, result, written>>

\* pattern.end() after the last row
BitmapEnd ==
    /\ pc = "b_row"
    /\ y >= ImgHeight
    /\ pattern' = Append(pattern, End)
    /\ origin' = Append(origin, <<1, "E">>)
    /\ pc' = "write"
    /\ UNCHANGED <<inputs, i, threads, total_stitches, fill_lines, center, fillVars,
                   stroke_points, k, bitmapVars, result, written>>

(***************************************************************************)
(* convert_svg_to_dst_manual: the fixed rectangles of the logo.  The file  *)
(* named by svg_file is never read.                                        *)
(***************************************************************************)
FillAreas ==
    << [x1 |-> -300, y1 |-> -400, x2 |-> -200, y2 |-> -100],
       [x1 |-> 100, y1 |-> -400, x2 |-> 300, y2 |-> -300],
       [x1 |-> -200, y1 |-> -200, x2 |-> 100, y2 |-> -100],
       [x1 |-> -100, y1 |-> 0, x2 |-> 200, y2 |-> 100],
       [x1 |-> -300, y1 |-> 200, x2 |-> -100, y2 |-> 400],
       [x1 |-> 200, y1 |-> 300, x2 |-> 300, y2 |-> 400] >>

\* v * svg_scale with svg_scale = scale * 0.6
ManualCoord(v, s) == RDiv(v * s * 6, 10)

\* the scaled rectangle, its corners put in order
ScaledArea(a, s) ==
    LET x1 == ManualCoord(a.x1, s)
        x2 == ManualCoord(a.x2, s)
        y1 == ManualCoord(a.y1, s)
        y2 == ManualCoord(a.y2, s)
    IN  [x1 |-> IF x1 > x2 THEN x2 ELSE x1,
         x2 |-> IF x1 > x2 THEN x1 ELSE x2,
         y1 |-> IF y1 > y2 THEN y2 ELSE y1,
         y2 |-> IF y1 > y2 THEN y1 ELSE y2]

\* pattern.color_change(); pattern.add_thread(thread_info); the counters
ManualColorChange ==
    /\ pc = "m_color"
    /\ pattern' = Append(pattern, ColorChange)
    /\ origin' = Append(origin, <<1, "F">>)
    /\ threads' = Append(threads, Thread(1, "F", "#047AE1"))
    /\ total_stitches' = 0
    /\ fill_lines' = 0
    /\ area' = 1
    /\ pc' = "m_area"
    /\ UNCHANGED <<inputs, i, center, fillVars, stroke_points, k, y, row, line_segments,
                   result, written>>

\* `for area in fill_areas`: y = y1 + fill_spacing
AreaStart ==
    /\ pc = "m_area"
    /\ area <= Len(FillAreas)
    /\ y' = ScaledArea(FillAreas[area], scale).y1 + Fx(ManualFillSpacing)
    /\ pc' = "m_line"
    /\ UNCHANGED <<inputs, i, outVars, fill_lines, center, fillVars, stroke_points, k,
                   row, line_segments, area, result, written>>

\* `while y < y2`: move_abs(x1, y); stitch_abs(x2, y); the counters; y += fill_spacing
FillLine ==
    /\ pc = "m_line"
    /\ y < ScaledArea(FillAreas[area], scale).y2
    /\ pattern' = pattern \o <<Move(<<ScaledArea(FillAreas[area], scale).x1, y>>),
                               Stitch(<<ScaledArea(FillAreas[area], scale).x2, y>>)>>
    /\ origin' = origin \o <<<<area, "F">>, <<area, "F">>>>
    /\ fill_lines' = fill_lines + 1
    /\ total_stitches' = total_stitches + 1
    /\ y' = y + Fx(ManualFillSpacing)
    /\ UNCHANGED <<inputs, pc, i, threads, center, fillVars, stroke_points, k,
                   row, line_segments, area, result, written>>

AreaDone ==
    /\ pc = "m_line"
    /\ y >= ScaledArea(FillAreas[area], scale).y2
    /\ area' = area + 1
    /\ pc' = "m_area"
    /\ UNCHANGED <<inputs, i, outVars, fill_lines, center, fillVars, stroke_points, k,
                   y, row, line_segments, result, written>>

\* pattern.end() after the last area
ManualEnd ==
    /\ pc = "m_area"
    /\ area > Len(FillAreas)
    /\ pattern' = Append(pattern, End)
    /\ origin' = Append(origin, <<1, "E">>)
    /\ pc' = "write"
    /\ UNCHANGED <<inputs, i, threads, total_stitches, fill_lines, center, fillVars,
                   stroke_points, k, bitmapVars, result, written>>

Next ==
    \/ LoadEmpty
    \/ Load
    \/ SkipZeroLength
    \/ NextPath
    \/ NoFill
    \/ FillColorChange
    \/ ZeroDivision
    \/ FillSample
    \/ ComputeLayer
    \/ LayerMove
    \/ LayerStitch
    \/ LayerEnd
    \/ LayersDone
    \/ NoStroke
    \/ StrokeColorChange
    \/ StrokeSample
    \/ StrokeMove
    \/ StrokeStitch
    \/ StrokeEnd
    \/ EndPattern
    \/ WritePattern
    \/ BitmapLoadEmpty
    \/ BitmapLoad
    \/ BitmapColorChange
    \/ ScanRow
    \/ EmitSegment
    \/ RowDone
    \/ BitmapEnd
    \/ ManualColorChange
    \/ AreaStart
    \/ FillLine
    \/ AreaDone
    \/ ManualEnd

Spec == Init /\ [][Next]_vars


(***************************************************************************)
(* Vocabulary of the properties.                                           *)
(***************************************************************************)
CountCmd(c) == Cardinality({n \in 1..Len(pattern) : pattern[n].cmd = c})

RECURSIVE ColorChangeBefore(_)
\* the index of the last ColorChange among the first n commands, 0 when there is none
ColorChangeBefore(n) ==
    IF n = 0 THEN 0
    ELSE IF pattern[n].cmd = "ColorChange" THEN n ELSE ColorChangeBefore(n - 1)

LastColorChange == ColorChangeBefore(Len(pattern))

TailAfterColorChange == SubSeq(pattern, LastColorChange + 1, Len(pattern))

LastOrigin == IF Len(origin) = 0 THEN <<0, "none">> ELSE origin[Len(origin)]

\* a contour stitched open: Move to its first point, Stitch through the rest
ContourCmds(pts) == [n \in 1..Len(pts) |-> IF n = 1 THEN Move(pts[1]) ELSE Stitch(pts[n])]

IsPrefix(s, t) == Len(s) <= Len(t) /\ \A n \in 1..Len(s) : s[n] = t[n]

Absent(attr, key) == \A kv \in attr : kv[1] # key

NoAttribute(attr, key) == Absent(attr, key) \/ <<key, "none">> \in attr

\* the shapes the conversion is to skip: zero length, or neither fill nor stroke
Skipped(j) ==
    \/ PathLength(paths[j]) = 0
    \/ NoAttribute(attributes[j], "fill") /\ NoAttribute(attributes[j], "stroke")

FillOnly(j) ==
    /\ PathLength(paths[j]) # 0
    /\ ~NoAttribute(attributes[j], "fill")
    /\ NoAttribute(attributes[j], "stroke")

StrokeOnly(j) ==
    /\ PathLength(paths[j]) # 0
    /\ NoAttribute(attributes[j], "fill")
    /\ ~NoAttribute(attributes[j], "stroke")

Rank(o) == 2 * o[1] + (IF o[2] = "S" THEN 1 ELSE 0)

Finished == pc = "done" /\ result = "True"

\* every command stays behind the commands of later shapes, fill before stroke,
\* one thread per ColorChange, and End once, last
ShapeOrder ==
    /\ \A m, n \in 1..Len(origin) : m < n => Rank(origin[m]) <= Rank(origin[n])
    /\ \A n \in 1..Len(pattern) :
         pattern[n].cmd = "ColorChange" =>
            LET t == Cardinality({m \in 1..n : pattern[m].cmd = "ColorChange"})
            IN  t <= Len(threads) /\ threads[t].catalog_number = origin[n]
    /\ CountCmd("ColorChange") = Len(threads)
    /\ CountCmd("End") = 1
    /\ pattern[Len(pattern)].cmd = "End"

\* the commands from..to are contours: the first is a Move, the last a Stitch, and a
\* Move is followed by a Stitch
Contours(from, to) ==
    /\ from < to
    /\ pattern[from].cmd = "Move"
    /\ pattern[to].cmd = "Stitch"
    /\ \A n \in from..to : pattern[n].cmd \in {"Move", "Stitch"}
    /\ \A n \in from..(to - 1) : pattern[n].cmd = "Move" => pattern[n + 1].cmd = "Stitch"

\* ColorChange, Move, Stitch..., ColorChange, Move, Stitch..., End: the fill of the
\* first shape (the contours of its layers), then the stroke of the second (one
\* contour), each led by its ColorChange and thread
TwoRuns ==
    \E c \in 2..(Len(pattern) - 1) :
        /\ pattern[1].cmd = "ColorChange"
        /\ origin[1] = <<1, "F">>
        /\ Contours(2, c - 1)
        /\ pattern[c].cmd = "ColorChange"
        /\ origin[c] = <<2, "S">>
        /\ Contours(c + 1, Len(pattern) - 1)
        /\ \A n \in (c + 2)..(Len(pattern) - 1) : pattern[n].cmd = "Stitch"
        /\ pattern[Len(pattern)].cmd = "End"
        /\ threads = <<Thread(1, "F", Get(attributes[1], "fill")),
                       Thread(2, "S", Get(attributes[2], "stroke"))>>

\* C1: the output of convert_svg_to_dst follows the input order of the shapes,
\* for each shape the fill output before the stroke output, with exactly one End, the
\* last command; and a fill-only shape followed by a stroke-only shape yields
\* ColorChange, Thread1, Move, Stitch..., ColorChange, Thread2, Move, Stitch..., End.
C1_ShapeOrderAndScenario ==
    (fn = "auto" /\ Finished) =>
        /\ ShapeOrder
        /\ (Len(paths) = 2 /\ FillOnly(1) /\ StrokeOnly(2)) => TwoRuns

\* C2: in every command sequence a converter produces, the command after a
\* ColorChange is a Move: never a Stitch, another ColorChange or End.
C2_MoveAfterColorChange ==
    Finished =>
        \A n \in 1..Len(pattern) :
            pattern[n].cmd = "ColorChange" =>
                n < Len(pattern) /\ pattern[n + 1].cmd = "Move"

\* C3: in convert_svg_to_dst a shape of zero length, or with neither fill nor stroke
\* (absent or "none"), adds no command and no thread, adds nothing to the total-stitch
\* counter, and does not make the conversion fail.
C3_SkippedShapes ==
    fn = "auto" =>
        /\ \A n \in 1..Len(origin) : origin[n][2] # "E" => ~Skipped(origin[n][1])
        /\ \A n \in 1..Len(threads) : ~Skipped(threads[n].catalog_number[1])
        /\ total_stitches =
              Cardinality({n \in 1..Len(pattern) :
                              pattern[n].cmd = "Stitch" /\ ~Skipped(origin[n][1])})
        /\ (pc = "done" /\ Len(paths) > 0
              /\ (step_size # 0 \/ \A j \in 1..Len(paths) : Skipped(j)))
           => (result = "True" /\ written)
        /\ (pc = "done" /\ Len(paths) > 0 /\ \A j \in 1..Len(paths) : Skipped(j))
           => pattern = <<End>>

C3_Witness ==
    /\ fn = "auto"
    /\ Finished
    /\ Len(paths) = 2
    /\ PathLength(paths[1]) = 0
    /\ PathLength(paths[2]) # 0
    /\ Skipped(2)
    /\ pattern = <<End>>
    /\ total_stitches = 0

\* n = max(q, m) where q is the quotient len / step cut to an integer
IsTruncatedCount(n, len, step, m) ==
    /\ n >= m
    /\ (n + 1) * step > len
    /\ n > m => n * step <= len

SampledWith(pts, p, n) ==
    /\ Len(pts) = n + 1
    /\ \A j \in 0..n : pts[j + 1] = MapPoint(PathPoint(p, j, n), center, scale)

FillJustSampled == fn = "auto" /\ pc = "layer" /\ layer = 0
StrokeJustSampled == fn = "auto" /\ pc = "stroke_move"

\* C4 as claimed: the sampler returns n+1 points at t = j/n, j = 0..n, with
\* n = max(round(length/step), min_samples).
C4_RoundedSampleCount ==
    /\ FillJustSampled =>
          SampledWith(fill_points, paths[i],
                      Max(RoundHalfEven(PathLength(paths[i]), step_size), MinFillSamples))
    /\ StrokeJustSampled =>
          SampledWith(stroke_points, paths[i],
                      Max(RoundHalfEven(PathLength(paths[i]), step_size), MinStrokeSamples))

\* C4 as amended: the sampler returns n+1 points at t = j/n, j = 0..n, with
\* n = max(int(length/step), min_samples), the quotient truncated to an integer.
C4_TruncatedSampleCount ==
    /\ FillJustSampled =>
          /\ IsTruncatedCount(Len(fill_points) - 1, PathLength(paths[i]), step_size,
                              MinFillSamples)
          /\ SampledWith(fill_points, paths[i], Len(fill_points) - 1)
    /\ StrokeJustSampled =>
          /\ IsTruncatedCount(Len(stroke_points) - 1, PathLength(paths[i]), step_size,
                              MinStrokeSamples)
          /\ SampledWith(stroke_points, paths[i], Len(stroke_points) - 1)

C4_Witness ==
    /\ StrokeJustSampled
    /\ Len(stroke_points) - 1 > MinStrokeSamples
    /\ Len(stroke_points) - 1 # RoundHalfEven(PathLength(paths[i]), step_size)

StrokeRunning == pc \in {"stroke_sample", "stroke_move", "stroke_stitch"}

\* C5: the stroke pass over k sampled points emits one Move to the first point and
\* then k-1 Stitch commands, one per remaining point in sampling order, and no
\* closing segment.
C5_StrokeRun ==
    (fn = "auto" /\ LastOrigin[2] = "S") =>
        /\ IsPrefix(TailAfterColorChange, ContourCmds(stroke_points))
        /\ (~StrokeRunning /\ result # "False")
           => Len(TailAfterColorChange) = Len(stroke_points)

C5_Witness ==
    /\ fn = "auto"
    /\ pc = "path"
    /\ LastOrigin[2] = "S"
    /\ Len(stroke_points) > MinStrokeSamples + 1
    /\ Len(TailAfterColorChange) = Len(stroke_points)
    /\ stroke_points[1] # stroke_points[Len(stroke_points)]

\* the layer whose points layer_points holds
CurrentLayer == IF pc = "layer" THEN layer - 1 ELSE layer

\* the positions of the fill points a layer of offset off retains, in order
KeptIndices(c, off) ==
    SelectSeq([n \in 1..Len(fill_points) |-> n],
              LAMBDA n : Dist2(fill_points[n], c) > off * off)

\* q lies between p and c on both axes
Between(q, p, c) ==
    /\ (p[1] <= q[1] /\ q[1] <= c[1]) \/ (c[1] <= q[1] /\ q[1] <= p[1])
    /\ (p[2] <= q[2] /\ q[2] <= c[2]) \/ (c[2] <= q[2] /\ q[2] <= p[2])

\* C6: the layers of the concentric fill do not expand: a point that layers l and
\* l+1 both retain is no farther from the centroid in layer l+1 than in layer l; a
\* point is retained in layer l only if its distance to the centroid exceeds
\* l * layer_spacing; no retained point is moved past the centroid.
C6_LayersDoNotExpand ==
    (fn = "auto" /\ pc \in {"layer", "layer_move", "layer_stitch"} /\ CurrentLayer >= 0) =>
        LET c == Centroid(fill_points)
            off == CurrentLayer * Fx(LayerOffset)
            kept == KeptIndices(c, off)
        IN  /\ Len(layer_points) = Len(kept)
            /\ \A n \in 1..Len(layer_points) :
                 LET p == fill_points[kept[n]]
                     q == layer_points[n]
                 IN  /\ Between(q, p, c)
                     /\ Dist2(q, c) <= Dist2(p, c)
                     /\ CurrentLayer > 0 =>
                           /\ Dist2(q, c) < Dist2(p, c)
                           /\ Dist2(q, c) <=
                                 Dist2(OffsetPoint(p, c, off - Fx(LayerOffset)), c)

C6_Witness ==
    /\ fn = "auto"
    /\ pc = "layer_stitch"
    /\ layer >= 1
    /\ Len(layer_points) > 3
    /\ Len(layer_points) < Len(fill_points)

RECURSIVE LayersEmitted(_, _)
\* the commands of the layers 0..l-1 of the fill points: a layer of more than 3
\* points as an open contour, any other layer as nothing
LayersEmitted(c, l) ==
    IF l = 0 THEN << >>
    ELSE LET lp == LayerPoints(fill_points, c, l - 1)
         IN  LayersEmitted(c, l - 1) \o (IF Len(lp) > 3 THEN ContourCmds(lp) ELSE << >>)

\* C7: a layer of the concentric fill is emitted if and only if it retains more than
\* 3 points; an emitted layer is one Move to its first point followed by Stitch
\* through the rest; a layer of 3 or fewer points emits no command.
C7_LayerEmission ==
    (fn = "auto" /\ pc \in {"layer", "layer_move", "layer_stitch"}) =>
        /\ pc \in {"layer", "layer_move"} =>
              TailAfterColorChange = LayersEmitted(Centroid(fill_points), layer)
        /\ pc = "layer_move" => Len(layer_points) > 3
        /\ pc = "layer_stitch" =>
              /\ Len(layer_points) > 3
              /\ Len(TailAfterColorChange) >= k - 1
              /\ IsPrefix(SubSeq(pattern, Len(pattern) - k + 2, Len(pattern)),
                          ContourCmds(layer_points))

C7_Witness ==
    /\ fn = "auto"
    /\ pc = "layer"
    /\ layer = FillLayers
    /\ fill_lines >= 2
    /\ \E l \in 0..(FillLayers - 1) :
          Len(LayerPoints(fill_points, Centroid(fill_points), l)) \in 1..3
    /\ \E l \in 0..(FillLayers - 1) :
          Len(LayerPoints(fill_points, Centroid(fill_points), l)) = 0

NoOutput == pattern = << >> /\ threads = << >> /\ ~written

\* C8 as claimed: with an empty shape list every converter fails before any output:
\* no command, no thread, nothing handed to the encoder.
C8_EmptyInputFailsEverywhere ==
    Len(paths) = 0 => (NoOutput /\ (pc = "done" => result = "False"))

\* C8 as amended: with an empty shape list convert_svg_to_dst and
\* convert_svg_to_dst_bitmap fail before any output; convert_svg_to_dst_manual does
\* not read the shape list and succeeds.
C8_EmptyInputFails ==
    Len(paths) = 0 =>
        /\ fn \in {"auto", "bitmap"} => (NoOutput /\ (pc = "done" => result = "False"))
        /\ (fn = "manual" /\ pc = "done") => (result = "True" /\ written)

C8_Witness ==
    /\ Len(paths) = 0
    /\ fn \in {"auto", "bitmap"}
    /\ pc = "done"
    /\ result = "False"
    /\ NoOutput

BlueAt(x) == IsBlue(row[x + 1])

\* [s, e) is a run of blue pixels no blue pixel extends
MaximalRun(s, e) ==
    /\ s < e
    /\ s = 0 \/ ~BlueAt(s - 1)
    /\ e = ImgWidth \/ ~BlueAt(e)
    /\ \A x \in s..(e - 1) : BlueAt(x)

\* C9: the runs of a scanned row are exactly the maximal runs of contiguous filled
\* pixels wider than 5, a run that reaches the right edge included: each has
\* x_start < x_end and x_end - x_start > 5 and covers only filled pixels, the runs
\* are disjoint and in increasing x order, none is omitted; and they are emitted in
\* that order as Move, Stitch.
C9_RowRuns ==
    (fn = "bitmap" /\ pc = "b_segment") =>
        /\ \A n \in 1..Len(line_segments) :
             /\ line_segments[n][1] < line_segments[n][2]
             /\ line_segments[n][2] - line_segments[n][1] > 5
             /\ MaximalRun(line_segments[n][1], line_segments[n][2])
        /\ \A n \in 1..(Len(line_segments) - 1) :
             line_segments[n][2] < line_segments[n + 1][1]
        /\ \A s, e \in 0..ImgWidth :
             (MaximalRun(s, e) /\ e - s > 5) =>
                \E n \in 1..Len(line_segments) : line_segments[n] = <<s, e>>
        /\ \A n \in 1..(k - 1) :
             LET at == Len(pattern) - 2 * (k - 1) + 2 * n - 1
             IN  /\ pattern[at] = Move(<<BitmapCoord(line_segments[n][1], center[1], scale),
                                         BitmapCoord(y, center[2], scale)>>)
                 /\ pattern[at + 1] = Stitch(<<BitmapCoord(line_segments[n][2], center[1], scale),
                                               BitmapCoord(y, center[2], scale)>>)

C9_Witness ==
    /\ fn = "bitmap"
    /\ pc = "b_segment"
    /\ Len(line_segments) = 2
    /\ line_segments[2][2] = ImgWidth
    /\ k = 3
    /\ y > 0

\* C10: at every point of a conversion the total-stitch counter is the number of
\* Stitch commands appended to the pattern so far.
C10_StitchCounter == total_stitches = CountCmd("Stitch")

C10_Witness ==
    /\ fn = "auto"
    /\ Finished
    /\ \E n \in 1..Len(pattern) : pattern[n].cmd = "Stitch" /\ origin[n][2] = "F"
    /\ \E n \in 1..Len(pattern) : pattern[n].cmd = "Stitch" /\ origin[n][2] = "S"
    /\ total_stitches > 0

CanvasCenter == <<Fx(SvgWidth) \div 2, Fx(SvgHeight) \div 2>>

MappedFrom(pts, p, c) ==
    \A j \in 1..Len(pts) : pts[j] = MapPoint(PathPoint(p, j - 1, Len(pts) - 1), c, scale)

\* C11: in convert_svg_to_dst the canvas center that maps path points to stitch
\* coordinates, (p - center) * scale, is left unchanged by fill processing: the
\* fill samples and the stroke samples of every shape, the first and the later
\* ones alike, are mapped with the center of the SVG canvas.
C11_CanvasCenterKept ==
    /\ FillJustSampled => MappedFrom(fill_points, paths[i], CanvasCenter)
    /\ StrokeJustSampled => MappedFrom(stroke_points, paths[i], CanvasCenter)

====
